---- MODULE Spec2Model ----
(***************************************************************************)
(* Model of cloudfront_short_url/generator.py: the Settings dataclass, the *)
(* class-cached boto3 client, the random key generator, the existence      *)
(* probe (head_object), the upload (put_object) and the generate loop.     *)
(*                                                                         *)
(* Python strings are modelled as sequences of one-character strings, so   *)
(* that formatting, splitting and lengths are computed, not assumed.       *)
(***************************************************************************)
EXTENDS Integers, Sequences, FiniteSets, TLC

(* ---------------------------- bounds ----------------------------------- *)

\* largest number of head_object probes one call is followed through
MaxProbes == 2
\* largest configured Settings.random_digits
MaxDigits == 1
\* the generate() invocations followed, sequential or overlapping
Calls == {"c1", "c2"}
Instances == {"x", "y"}
NativeUrls == {"u1", "u2"}

(* ---------------------------- strings ---------------------------------- *)

\* string.ascii_lowercase + string.digits
ALPHABET ==
  << "a","b","c","d","e","f","g","h","i","j","k","l","m",
     "n","o","p","q","r","s","t","u","v","w","x","y","z",
     "0","1","2","3","4","5","6","7","8","9" >>

\* the symbols the random source is followed through: one letter, one digit
Alphabet == { ALPHABET[1], ALPHABET[27] }

\* "{}/{}".format(a, b)
Format(a, b) == a \o << "/" >> \o b

\* number of occurrences of ch in s
RECURSIVE Count(_, _)
Count(s, ch) ==
  IF s = << >> THEN 0
  ELSE (IF Head(s) = ch THEN 1 ELSE 0) + Count(Tail(s), ch)

\* str.split(sep): the list of segments between the separators
RECURSIVE SplitFrom(_, _, _)
SplitFrom(s, sep, cur) ==
  IF s = << >> THEN << cur >>
  ELSE IF Head(s) = sep THEN << cur >> \o SplitFrom(Tail(s), sep, << >>)
  ELSE SplitFrom(Tail(s), sep, Append(cur, Head(s)))

Split(s, sep) == SplitFrom(s, sep, << >>)

(* ---------------------------- Settings --------------------------------- *)

DefaultSignatureVersion == "s3v4"

Regions == {"us-east-1", "eu-west-1"}
Buckets == {"b"}
Prefixes == { << "a" >>, << "a", "/", "b" >> }
Distros == { << "s", ".", "t" >>, << "s", "/", "t" >> }

\* the dataclass performs no validation: any integer is accepted
Settings ==
  [ region : Regions,
    bucket : Buckets,
    prefix : Prefixes,
    cloudfront_distro : Distros,
    random_digits : (0 - 1)..MaxDigits,
    boto_signature_version : {DefaultSignatureVersion} ]

\* the fields of the dataclass, in declaration order
SettingsFieldList ==
  << "region", "bucket", "prefix", "cloudfront_distro", "random_digits",
     "boto_signature_version" >>
SettingsFields == { SettingsFieldList[n] : n \in 1..Len(SettingsFieldList) }

\* random_digits: int = 8
DefaultRandomDigits == 8

\* as if cloudfront_distro: str = "" had been declared
RequiredFields_DistroOptional == { "region", "bucket", "prefix" }

\* the fields declared without a default
RequiredFields == { "region", "bucket", "prefix", "cloudfront_distro" }

\* no Settings object
NoSettings ==
  [ region |-> "none", bucket |-> "none", prefix |-> << >>,
    cloudfront_distro |-> << >>, random_digits |-> 0,
    boto_signature_version |-> "none" ]

\* The __init__ the dataclass decorator generates, called with the arguments
\* named in given (their values taken from args): TypeError when a field
\* without a default is not given, else the object, defaults filled in.
Settings__init__(given, args) ==
  IF ~ (RequiredFields \subseteq given)
    THEN [ outcome |-> "TypeError", object |-> NoSettings ]
    ELSE [ outcome |-> "ok",
           object |->
             [ region |-> IF "region" \in given THEN args.region ELSE "",
               bucket |-> IF "bucket" \in given THEN args.bucket ELSE "",
               prefix |-> IF "prefix" \in given THEN args.prefix ELSE << >>,
               cloudfront_distro |->
                 IF "cloudfront_distro" \in given
                   THEN args.cloudfront_distro ELSE << >>,
               random_digits |->
                 IF "random_digits" \in given
                   THEN args.random_digits ELSE DefaultRandomDigits,
               boto_signature_version |->
                 IF "boto_signature_version" \in given
                   THEN args.boto_signature_version
                   ELSE DefaultSignatureVersion ] ]

(* ---------------------------- pure functions --------------------------- *)

\* range(n) is empty for n <= 0
Range(n) == IF n <= 0 THEN {} ELSE 1..n

\* generate_random drawing over range(random_digits + 1)
generate_random_OffByOne(s) == [ Range(s.random_digits + 1) -> Alphabet ]

\* the strings generate_random can return for a given random_digits
generate_random(s) == [ Range(s.random_digits) -> Alphabet ]

\* boto3.client("s3", region_name=..., config=Config(signature_version=...))
s3_client(s) ==
  [ region_name |-> s.region, signature_version |-> s.boto_signature_version ]

Ok == [ kind |-> "ok", code |-> "200" ]
ClientError(code) == [ kind |-> "ClientError", code |-> code ]
ConnectionError == [ kind |-> "ConnectionError", code |-> "none" ]

\* What head_object can answer for a key that is / is not in the bucket.
\* 200 is answered only for a stored key and 404 only for a missing one; 403
\* is answered for a missing key when ListBucket is not granted and for a
\* stored key the caller may not read; any request can fail with another
\* ClientError (500) or with an exception that is no ClientError.
head_object(present) ==
  IF present
    THEN { Ok, ClientError("403"), ClientError("500"), ConnectionError }
    ELSE { ClientError("404"), ClientError("403"), ClientError("500"),
           ConnectionError }

\* what put_object can answer
put_object == { Ok, ClientError("500") }

NoResp == [ kind |-> "none", code |-> "none" ]

\* how a function call ends: it returns value, or it raises exc
Returned(v) == [ raised |-> FALSE, value |-> v, exc |-> NoResp ]
Raised(e) == [ raised |-> TRUE, value |-> FALSE, exc |-> e ]

\* exists_s3_key with a bare except: every failure reads as 'absent'
exists_s3_key_SwallowsErrors(resp) ==
  IF resp.kind = "ok" THEN Returned(TRUE) ELSE Returned(FALSE)

\* exists_s3_key without the 403 branch
exists_s3_key_No403(resp) ==
  IF resp.kind = "ok" THEN Returned(TRUE)
  ELSE IF resp.kind = "ClientError" /\ resp.code = "404" THEN Returned(FALSE)
  ELSE Raised(resp)

\* exists_s3_key, from the answer of head_object to its return value
exists_s3_key(resp) ==
  IF resp.kind = "ok" THEN Returned(TRUE)
  ELSE IF resp.kind = "ClientError" /\ resp.code = "404" THEN Returned(FALSE)
  ELSE IF resp.kind = "ClientError" /\ resp.code = "403" THEN Returned(FALSE)
  ELSE Raised(resp)

upload_kwargs(s, key, native_url) ==
  [ Bucket |-> s.bucket,
    Key |-> key,
    Body |-> << >>,
    WebsiteRedirectLocation |-> native_url,
    ContentType |-> "text/plain" ]

\* the loop body run once, whatever the probe said
LoopAgain_Never(check) == FALSE

\* while True: ...
LoopAgain_Always(check) == TRUE

\* while check: ...
LoopAgain(check) == check

\* "{}/{}".format(self.settings.prefix, short_id)
ShortKey(s, short_id) == Format(s.prefix, short_id)

\* "{}{}".format(self.settings.cloudfront_distro, short_key)
ShortUrlOf_NoSlash(s, short_key) == s.cloudfront_distro \o short_key

\* "{}/{}".format(self.settings.cloudfront_distro, short_key)
ShortUrlOf(s, short_key) == Format(s.cloudfront_distro, short_key)

(* ---------------------------- state ------------------------------------ *)

VARIABLES
  settings,   \* ShortUrl instance -> its Settings
  ctor,       \* ShortUrl instance -> how the Settings(...) call for it went
  cache,      \* the class attribute _cache_s3_client, or NoClient
  built,      \* how many times func(self), i.e. boto3.client, has run
  first,      \* the instance whose access to s3_client came first
  store,      \* the bucket contents: <<Bucket, Key>> -> stored object
  calls       \* generate() invocation -> its frame

vars == << settings, ctor, cache, built, first, store, calls >>

NoClient == [ region_name |-> "none", signature_version |-> "none" ]
None == << "None" >>
NoPut ==
  [ Bucket |-> "none", Key |-> None, Body |-> None,
    WebsiteRedirectLocation |-> "none", ContentType |-> "none" ]
NoOut == [ raised |-> FALSE, value |-> FALSE, exc |-> NoResp ]

IdleFrame ==
  [ pc |-> "idle", inst |-> "x", native_url |-> "u1",
    short_id |-> None, short_key |-> None, check |-> TRUE,
    miss |-> FALSE,          \* hasattr() answered False, func(self) pending
    client |-> NoClient,     \* the client the last s3_client access returned
    used |-> 0,              \* ... and which construction it came from
    seen |-> {},             \* the keys whose probe reported 'exists'
    probes |-> 0,            \* head_object calls made
    collisions |-> 0,        \* probes that returned True
    writes |-> 0,            \* put_object calls made
    tick |-> FALSE,          \* parity of the loop iteration
    resp |-> NoResp,         \* answer of the last head_object
    out |-> NoOut,           \* how the last exists_s3_key ended
    put |-> NoPut,           \* the kwargs handed to put_object
    wresp |-> NoResp,        \* answer of put_object
    present |-> FALSE,       \* was short_key in the bucket at the last probe
    error |-> NoResp,        \* the exception generate raised
    result |-> None ]        \* the string generate returned

\* The two ShortUrl instances followed publish to one bucket with one suffix
\* length.  Instance x is built for the first region and the host without a
\* "/", instance y for the second region and the host with one; each has any
\* of the prefixes.
Deployments ==
  { d \in [ Instances -> Settings ] :
      /\ d["x"].region = "us-east-1"
      /\ d["y"].region = "eu-west-1"
      /\ d["x"].cloudfront_distro = << "s", ".", "t" >>
      /\ d["y"].cloudfront_distro = << "s", "/", "t" >>
      /\ d["y"].random_digits = d["x"].random_digits }

Init ==
  /\ settings \in Deployments
  /\ ctor = [ i \in Instances |-> [ given |-> SettingsFields, outcome |-> "ok" ] ]
  /\ cache = NoClient
  /\ built = 0
  /\ first = "none"
  /\ store = << >>
  /\ calls = [ c \in Calls |-> IdleFrame ]

Has(bucket, key) == << bucket, key >> \in DOMAIN store

\* put_object that would leave an existing object in place
Put_KeepFirst(obj) ==
  [ k \in DOMAIN store \cup { << obj.Bucket, obj.Key >> } |->
      IF k \in DOMAIN store THEN store[k] ELSE obj ]

\* put_object: the object is created or replaced
Put(obj) ==
  [ k \in DOMAIN store \cup { << obj.Bucket, obj.Key >> } |->
      IF k = << obj.Bucket, obj.Key >> THEN obj ELSE store[k] ]

Bump(n) == IF n < MaxProbes THEN n + 1 ELSE n

(* ---------------------------- actions ---------------------------------- *)

\* generate(native_url) is entered on instance i: check = True
\* (the calls are named in the order in which they are entered)
Start(c, i, u) ==
  /\ calls[c].pc = "idle"
  /\ c = "c2" => calls["c1"].pc # "idle"
  /\ ctor[i].outcome = "ok"
  /\ calls' = [ calls EXCEPT ![c] =
                  [ IdleFrame EXCEPT !.pc = "probing", !.inst = i,
                                     !.native_url = u, !.check = TRUE ] ]
  /\ UNCHANGED << settings, ctor, cache, built, first, store >>

\* _cached_property: hasattr(obj, attr_name) is False.  (Once the attribute
\* is set it is never removed, so a later access is a plain read of cache.)
ClientMiss(c) ==
  /\ calls[c].pc \in {"probing", "writing"}
  /\ ~ calls[c].miss
  /\ cache = NoClient
  /\ calls' = [ calls EXCEPT ![c].miss = TRUE ]
  /\ first' = IF first = "none" THEN calls[c].inst ELSE first
  /\ UNCHANGED << settings, ctor, cache, built, store >>

\* _cached_property: setattr(obj, attr_name, func(self))
ClientBuild(c) ==
  /\ calls[c].miss
  /\ cache' = s3_client(settings[calls[c].inst])
  /\ built' = built + 1
  /\ calls' = [ calls EXCEPT ![c].miss = FALSE ]
  /\ UNCHANGED << settings, ctor, first, store >>

\* One iteration of the while loop: generate_random, format, exists_s3_key.
\* With capped a call is followed through MaxProbes iterations only; without
\* it the loop runs on and the counters stop counting at MaxProbes.
Probe(c, short_id, capped) ==
  LET f == calls[c]
      s == settings[f.inst]
      short_key == ShortKey(s, short_id)
      present == Has(s.bucket, short_key)
  IN /\ f.pc = "probing"
     /\ ~ f.miss
     /\ cache # NoClient
     /\ capped => f.probes < MaxProbes
     /\ short_id \in generate_random(s)
     /\ \E resp \in head_object(present) :
          LET out == exists_s3_key(resp)
              g == [ f EXCEPT !.short_id = short_id, !.short_key = short_key,
                              !.probes = Bump(f.probes), !.tick = ~ f.tick,
                              !.resp = resp, !.present = present,
                              !.out = out, !.client = cache,
                              !.used = built,
                              !.seen = IF ~ out.raised /\ out.value
                                         THEN f.seen \cup { short_key }
                                         ELSE f.seen ]
          IN calls' = [ calls EXCEPT ![c] =
               IF out.raised
                 THEN [ g EXCEPT !.pc = "raised", !.error = out.exc ]
                 ELSE [ g EXCEPT !.check = out.value,
                                 !.collisions =
                                    IF out.value THEN Bump(f.collisions)
                                                 ELSE f.collisions,
                                 !.pc = IF LoopAgain(out.value)
                                          THEN "probing" ELSE "writing" ] ]
     /\ UNCHANGED << settings, ctor, cache, built, first, store >>

\* put_object raised and generate swallows it, going round the loop again
UploadFailure_Retry(g, resp) == [ g EXCEPT !.pc = "probing", !.check = TRUE ]

\* put_object raised: upload_object and generate let the exception through
UploadFailure(g, resp) == [ g EXCEPT !.pc = "raised", !.error = resp ]

\* upload_object, then return of the short URL
Upload(c) ==
  LET f == calls[c]
      s == settings[f.inst]
  IN /\ f.pc = "writing"
     /\ ~ f.miss
     /\ cache # NoClient
     /\ \E resp \in put_object :
          LET kwargs == upload_kwargs(s, f.short_key, f.native_url)
              g == [ f EXCEPT !.writes = f.writes + 1, !.put = kwargs,
                              !.wresp = resp, !.client = cache,
                              !.used = built ]
          IN IF resp.kind = "ok"
               THEN /\ store' = Put(kwargs)
                    /\ calls' = [ calls EXCEPT ![c] =
                         [ g EXCEPT !.pc = "done",
                                    !.result = ShortUrlOf(s, f.short_key) ] ]
               ELSE /\ store' = store
                    /\ calls' = [ calls EXCEPT ![c] = UploadFailure(g, resp) ]
     /\ UNCHANGED << settings, ctor, cache, built, first >>

Suffixes == UNION { generate_random(s) : s \in Settings }

Next ==
  \/ \E c \in Calls, i \in Instances, u \in NativeUrls : Start(c, i, u)
  \/ \E c \in Calls : ClientMiss(c)
  \/ \E c \in Calls : ClientBuild(c)
  \/ \E c \in Calls, sid \in Suffixes : Probe(c, sid, TRUE)
  \/ \E c \in Calls : Upload(c)

Spec == Init /\ [][Next]_vars

(* ---------------------------- shorthands ------------------------------- *)

Conf(c) == settings[calls[c].inst]
Terminated(c) == calls[c].pc \in {"done", "raised"}
\* a head_object answer that exists_s3_key neither returns True nor False for
OtherError(r) ==
  /\ r.kind \notin {"ok", "none"}
  /\ ~ (r.kind = "ClientError" /\ r.code \in {"404", "403"})
\* the step is one loop iteration (a probe) of call c
ProbeStep(c) == calls'[c].tick # calls[c].tick
Max(a, b) == IF a >= b THEN a ELSE b

(* ---------------------------- C1 --------------------------------------- *)

\* C1: a call whose probe reported 'exists' N times and then 'absent' has
\* made exactly N+1 probes when it reaches the write, makes exactly one write,
\* and is finished (so it probes no more) once it has written.
C1_ProbesThenOneWrite ==
  \A c \in Calls :
    /\ calls[c].pc = "writing" =>
         /\ calls[c].probes = calls[c].collisions + 1
         /\ calls[c].writes = 0
    /\ calls[c].writes >= 1 =>
         /\ calls[c].probes = calls[c].collisions + 1
         /\ calls[c].writes = 1
         /\ Terminated(c)

\* a call that collided once, probed twice and wrote once
C1_Witness ==
  \E c \in Calls :
    /\ calls[c].pc = "done"
    /\ calls[c].collisions = 1
    /\ calls[c].probes = 2
    /\ calls[c].writes = 1

(* ---------------------------- C2 --------------------------------------- *)

\* C2: a probe answered by an error other than 404/403 ends the call with
\* that very error, with no write made, with the store left as it was, and
\* the call takes no further step (no later probe or write).
C2_ProbeErrorPropagates ==
  [][ \A c \in Calls :
        /\ (ProbeStep(c) /\ OtherError(calls'[c].resp)) =>
             /\ calls'[c].pc = "raised"
             /\ calls'[c].error = calls'[c].resp
             /\ calls'[c].writes = 0
             /\ calls'[c].put = NoPut
             /\ store' = store
        /\ (calls[c].pc = "raised" /\ calls[c].writes = 0) =>
             calls'[c] = calls[c] ]_vars

\* a call that collided, then had its second probe fail with a 500
C2_Witness ==
  \E c \in Calls :
    /\ calls[c].pc = "raised"
    /\ calls[c].collisions = 1
    /\ calls[c].error = ClientError("500")
    /\ calls[c].writes = 0

(* ---------------------------- C3 --------------------------------------- *)

\* C3: the key a call hands to the write was not in the store at the moment
\* of that call's final probe.
C3_WrittenKeyWasAbsent ==
  \A c \in Calls :
    calls[c].pc \in {"writing", "done"} => ~ calls[c].present

(* ---------------------------- C4 --------------------------------------- *)

\* C4 as stated: the returned string is host/prefix/suffix for the key the
\* call wrote, and its length is len(host) + 1 + len(prefix) + 1 +
\* random_digits.
C4_LengthWithRandomDigits ==
  \A c \in Calls :
    calls[c].pc = "done" =>
      /\ calls[c].result =
           Conf(c).cloudfront_distro \o << "/" >> \o calls[c].put.Key
      /\ Len(calls[c].result) =
           Len(Conf(c).cloudfront_distro) + 1 + Len(Conf(c).prefix) + 1
             + Conf(c).random_digits

\* C4 (amended): the returned string is host + "/" + prefix + "/" + suffix,
\* where prefix/suffix is the Key handed to put_object and stored by it; its
\* length is len(host) + 1 + len(prefix) + 1 + max(random_digits, 0).
C4_ResultIsHostSlashWrittenKey ==
  \A c \in Calls :
    calls[c].pc = "done" =>
      /\ calls[c].put.Key = Conf(c).prefix \o << "/" >> \o calls[c].short_id
      /\ << Conf(c).bucket, calls[c].put.Key >> \in DOMAIN store
      /\ calls[c].result =
           Conf(c).cloudfront_distro \o << "/" >> \o calls[c].put.Key
      /\ Len(calls[c].result) =
           Len(Conf(c).cloudfront_distro) + 1 + Len(Conf(c).prefix) + 1
             + Max(Conf(c).random_digits, 0)

\* a call that returned the 7-character "s.t/a/0"
C4_Witness ==
  \E c \in Calls :
    /\ calls[c].pc = "done"
    /\ Conf(c).random_digits = 1
    /\ calls[c].result = << "s", ".", "t", "/", "a", "/", "0" >>

(* ---------------------------- C5 --------------------------------------- *)

InAlphabet(seg) == \A n \in 1..Len(seg) : \E k \in 1..36 : seg[n] = ALPHABET[k]
Last(q) == q[Len(q)]

\* C5 as stated: for every accepted configuration the returned string splits
\* on "/" into exactly 3 segments, the last of random_digits characters, all
\* from [a-z0-9].
C5_ThreeSegments ==
  \A c \in Calls :
    calls[c].pc = "done" =>
      LET segs == Split(calls[c].result, "/")
      IN /\ Len(segs) = 3
         /\ Len(Last(segs)) = Conf(c).random_digits
         /\ InAlphabet(Last(segs))

\* C5 (amended): the returned string splits on "/" into 3 segments plus one
\* for every "/" in the distribution host and in the prefix (so exactly 3
\* when neither holds a "/"); the last segment is the random suffix, of
\* max(random_digits, 0) characters, all from [a-z0-9].
C5_SegmentsOfResult ==
  \A c \in Calls :
    calls[c].pc = "done" =>
      LET segs == Split(calls[c].result, "/")
      IN /\ Len(segs) = 3 + Count(Conf(c).cloudfront_distro, "/")
                          + Count(Conf(c).prefix, "/")
         /\ Last(segs) = calls[c].short_id
         /\ Len(Last(segs)) = Max(Conf(c).random_digits, 0)
         /\ InAlphabet(Last(segs))

\* a call that returned "s/t/a/b/0": 5 segments, the last one the suffix
C5_Witness ==
  \E c \in Calls :
    /\ calls[c].pc = "done"
    /\ Split(calls[c].result, "/") =
         << << "s" >>, << "t" >>, << "a" >>, << "b" >>, << "0" >> >>

(* ---------------------------- C6 --------------------------------------- *)

\* C6: two finished generate calls with the same native URL, the same bucket
\* and the same prefix returned distinct short URLs and wrote distinct keys.
C6_DistinctShortUrls ==
  \A c1, c2 \in Calls :
    ( /\ c1 # c2
      /\ calls[c1].pc = "done"
      /\ calls[c2].pc = "done"
      /\ calls[c1].native_url = calls[c2].native_url
      /\ Conf(c1).bucket = Conf(c2).bucket
      /\ Conf(c1).prefix = Conf(c2).prefix )
    => /\ calls[c1].result # calls[c2].result
       /\ calls[c1].put.Key # calls[c2].put.Key

(* ---------------------------- C7 --------------------------------------- *)

\* C7: a stored object is never deleted and its redirect target never
\* changes after its creation.
C7_RedirectTargetConstant ==
  [][ \A k \in DOMAIN store :
        /\ k \in DOMAIN store'
        /\ store'[k].WebsiteRedirectLocation = store[k].WebsiteRedirectLocation
    ]_vars

(* ---------------------------- C9 --------------------------------------- *)

\* the step is the put_object call of call c
WriteStep(c) == calls'[c].writes # calls[c].writes

\* C9: when put_object fails after an 'absent' probe the call ends raising
\* that error and returns nothing; the write was attempted once, with no new
\* probe and no new key; the failed call takes no further step; and a call
\* begun afterwards starts with no key, so it probes a freshly generated key
\* before it writes.
C9_WriteFailureEndsCall ==
  [][ \A c \in Calls :
        /\ (WriteStep(c) /\ calls'[c].wresp.kind # "ok") =>
             /\ ~ calls[c].check
             /\ calls'[c].pc = "raised"
             /\ calls'[c].error = calls'[c].wresp
             /\ calls'[c].result = None
             /\ calls'[c].writes = 1
             /\ calls'[c].probes = calls[c].probes
             /\ calls'[c].short_key = calls[c].short_key
             /\ store' = store
        /\ calls[c].pc = "raised" => calls'[c] = calls[c]
        /\ (calls[c].pc = "idle" /\ calls'[c].pc # "idle") =>
             /\ calls'[c].pc = "probing"
             /\ calls'[c].short_key = None
             /\ calls'[c].probes = 0
        /\ WriteStep(c) =>
             /\ calls[c].probes >= 1
             /\ calls'[c].put.Key = Conf(c).prefix \o << "/" >> \o calls[c].short_id
    ]_vars

\* one call failed in its write; another call for the same URL on the same
\* instance succeeded, with a key of its own probing
C9_Witness ==
  \E c1, c2 \in Calls :
    /\ calls[c1].pc = "raised"
    /\ calls[c1].writes = 1
    /\ calls[c1].error = ClientError("500")
    /\ calls[c2].pc = "done"
    /\ calls[c2].inst = calls[c1].inst
    /\ calls[c2].native_url = calls[c1].native_url
    /\ calls[c2].short_key # calls[c1].short_key

(* ---------------------------- C10 -------------------------------------- *)

\* C10: exists_s3_key returns True exactly when head_object succeeded,
\* returns False when it failed with code 404 or 403, raises the original
\* error for every other failure, and returns False for no other failure.
C10_ProbeOutcome ==
  \A c \in Calls :
    calls[c].probes >= 1 =>
      LET r == calls[c].resp
          o == calls[c].out
      IN /\ (~ o.raised /\ o.value) <=> r.kind = "ok"
         /\ (r.kind = "ClientError" /\ r.code \in {"404", "403"}) =>
              (~ o.raised /\ ~ o.value)
         /\ OtherError(r) => (o.raised /\ o.exc = r)
         /\ (~ o.raised /\ ~ o.value) =>
              (r.kind = "ClientError" /\ r.code \in {"404", "403"})

\* a probe answered 403 was turned into False
C10_Witness ==
  \E c \in Calls :
    /\ calls[c].probes >= 1
    /\ calls[c].resp = ClientError("403")
    /\ calls[c].out = Returned(FALSE)

(* ---------------------------- C8 --------------------------------------- *)

\* The loop has no iteration limit: here a call is followed through any
\* number of probes (the counters stop counting at MaxProbes).  The loop
\* does not read native_url, so one URL is followed.
FairNext ==
  \/ \E c \in Calls, i \in Instances : Start(c, i, "u1")
  \/ \E c \in Calls : ClientMiss(c)
  \/ \E c \in Calls : ClientBuild(c)
  \/ \E c \in Calls, sid \in Suffixes : Probe(c, sid, FALSE)
  \/ \E c \in Calls : Upload(c)

\* The loop reads neither the region nor the distribution host, the only
\* settings that tell x from y: x is given the first prefix, y either.
FairInit == Init /\ settings["x"].prefix = << "a" >>

\* A call that has begun keeps running (each of its steps is taken once it
\* stays possible), and the random source is fair: a loop that runs forever
\* draws every candidate suffix again and again.  Nothing is assumed of the
\* answers of the object store, and nothing makes a caller begin a call.
Fairness ==
  \A c \in Calls :
    /\ WF_vars(ClientMiss(c) \/ ClientBuild(c) \/ Upload(c))
    /\ \A sid \in Suffixes : WF_vars(Probe(c, sid, FALSE))

FairSpec == FairInit /\ [][FairNext]_vars /\ Fairness

\* every candidate key of call c's configuration is in the store
KeyspaceFull(c) ==
  \A sid \in generate_random(Conf(c)) :
    Has(Conf(c).bucket, ShortKey(Conf(c), sid))

\* C8 as stated: a call that is probing eventually returns or raises, for
\* every configuration and every store content.
C8_AlwaysTerminates ==
  \A c \in Calls : (calls[c].pc = "probing") ~> Terminated(c)

\* C8 (amended): under fair random choice a call that is probing eventually
\* leaves the loop (and then returns or raises), provided some candidate key
\* of its configuration is absent from the store; once every candidate key
\* is stored the call can stay in the loop forever.
C8_TerminatesWhileKeyFree ==
  \A c \in Calls :
    (calls[c].pc = "probing" /\ ~ KeyspaceFull(c))
      ~> (Terminated(c) \/ KeyspaceFull(c))

\* a call that collided, drew again and returned
C8_Witness ==
  \E c \in Calls :
    /\ calls[c].pc = "done"
    /\ calls[c].collisions >= 1
    /\ ~ calls[c].present

(* ---------------------------- C11 -------------------------------------- *)

NoCtor == [ given |-> {}, outcome |-> "none" ]

\* the values a caller passes for instance i, for the fields it does pass
CtorArgs(i) ==
  [ region |-> IF i = "x" THEN "us-east-1" ELSE "eu-west-1",
    bucket |-> "b",
    prefix |-> << "a" >>,
    cloudfront_distro |-> << "s", ".", "t" >>,
    random_digits |-> MaxDigits,
    boto_signature_version |-> "s3" ]

\* Settings(...) is called for instance i with the fields in given; when it
\* returns, ShortUrl(settings=...) keeps the object
Construct(i, given) ==
  LET r == Settings__init__(given, CtorArgs(i))
  IN /\ ctor[i].outcome # "ok"
     /\ ctor' = [ ctor EXCEPT ![i] = [ given |-> given, outcome |-> r.outcome ] ]
     /\ settings' = [ settings EXCEPT ![i] = r.object ]
     /\ UNCHANGED << cache, built, first, store, calls >>

\* nothing is constructed yet
CtorInit ==
  /\ settings = [ i \in Instances |-> NoSettings ]
  /\ ctor = [ i \in Instances |-> NoCtor ]
  /\ cache = NoClient
  /\ built = 0
  /\ first = "none"
  /\ store = << >>
  /\ calls = [ c \in Calls |-> IdleFrame ]

\* construction, entry into generate and the first access to s3_client
CtorNext ==
  \/ \E i \in Instances, given \in SUBSET SettingsFields : Construct(i, given)
  \/ \E c \in Calls, i \in Instances, u \in NativeUrls : Start(c, i, u)
  \/ \E c \in Calls : ClientMiss(c)
  \/ \E c \in Calls : ClientBuild(c)

CtorSpec == CtorInit /\ [][CtorNext]_vars

\* C11: a Settings(...) call that lacks region, bucket, prefix or
\* cloudfront_distro ends in a TypeError and yields no object, and the step
\* touches neither the client cache, the store nor any call; a call that
\* gives the four (with or without the other two) succeeds, random_digits
\* being 8 and boto_signature_version "s3v4" when not given; generate runs,
\* and a client is built, only for an instance whose Settings were built.
C11_MissingRequiredFieldFails ==
  [][ /\ \A i \in Instances :
           ctor'[i] # ctor[i] =>
             LET g == ctor'[i].given
                 s == settings'[i]
                 a == CtorArgs(i)
             IN /\ cache' = cache /\ built' = built /\ store' = store
                /\ calls' = calls
                /\ (\E f \in {"region", "bucket", "prefix", "cloudfront_distro"} :
                      f \notin g) =>
                     ctor'[i].outcome = "TypeError" /\ s = NoSettings
                /\ {"region", "bucket", "prefix", "cloudfront_distro"} \subseteq g =>
                     /\ ctor'[i].outcome = "ok"
                     /\ s.region = a.region /\ s.bucket = a.bucket
                     /\ s.prefix = a.prefix
                     /\ s.cloudfront_distro = a.cloudfront_distro
                     /\ s.random_digits =
                          IF "random_digits" \in g THEN a.random_digits ELSE 8
                     /\ s.boto_signature_version =
                          IF "boto_signature_version" \in g
                            THEN a.boto_signature_version ELSE "s3v4"
      /\ \A c \in Calls :
           calls'[c].pc # "idle" => ctor'[calls'[c].inst].outcome = "ok"
      /\ built' > built => \E i \in Instances : ctor[i].outcome = "ok"
    ]_vars

\* Settings() without prefix failed for y; x, built from the four required
\* fields alone, has the defaults and a call running on it
C11_Witness ==
  /\ ctor["y"].outcome = "TypeError"
  /\ ctor["y"].given = SettingsFields \ {"prefix"}
  /\ ctor["x"].outcome = "ok"
  /\ ctor["x"].given = {"region", "bucket", "prefix", "cloudfront_distro"}
  /\ settings["x"].random_digits = 8
  /\ settings["x"].boto_signature_version = "s3v4"
  /\ \E c \in Calls : calls[c].pc = "probing" /\ calls[c].inst = "x"

(* ---------------------------- C12 -------------------------------------- *)

\* the kwargs of the write of a finished call: own bucket, the key of the
\* final probe (which reported 'absent'), empty body, text/plain, the
\* caller's URL
WriteKwargsAsConfigured(c) ==
  /\ calls[c].writes = 1
  /\ calls[c].put.Bucket = Conf(c).bucket
  /\ calls[c].put.Key = Conf(c).prefix \o << "/" >> \o calls[c].short_id
  /\ calls[c].out = Returned(FALSE)
  /\ calls[c].put.Body = << >>
  /\ calls[c].put.ContentType = "text/plain"
  /\ calls[c].put.WebsiteRedirectLocation = calls[c].native_url

\* C12: the single write of a successful call goes to the configured bucket
\* and to the key prefix/suffix the final probe reported absent, with an
\* empty body, content type text/plain and the caller's URL as redirect
\* target; and no key whose probe reported 'exists' in that call is written
\* by it.
C12_WriteTargetsProbedAbsentKey ==
  \A c \in Calls :
    calls[c].pc = "done" =>
      /\ WriteKwargsAsConfigured(c)
      /\ calls[c].put.Key \notin calls[c].seen

(* ---------------------------- C13 -------------------------------------- *)

\* C13: two overlapping calls with the same prefix can both probe the same
\* unused key, both be told 'absent' and both write it.  Every successful
\* write replaces whatever the key held by the writer's own redirect object,
\* raises nothing and disturbs no other call; so both calls return the same
\* short URL without error and the store is left with the target of the write
\* that came last.
C13_LastWriteWins ==
  [][ \A c \in Calls :
        (WriteStep(c) /\ calls'[c].wresp.kind = "ok") =>
          LET k == << calls'[c].put.Bucket, calls'[c].put.Key >>
          IN /\ k \in DOMAIN store'
             /\ store'[k] = calls'[c].put
             /\ store'[k].WebsiteRedirectLocation = calls[c].native_url
             /\ \A j \in DOMAIN store' \ { k } :
                  j \in DOMAIN store /\ store'[j] = store[j]
             /\ DOMAIN store \subseteq DOMAIN store'
             /\ calls'[c].pc = "done"
             /\ calls'[c].error = NoResp
             /\ calls'[c].result = ShortUrlOf(Conf(c), calls[c].short_key)
             /\ \A d \in Calls \ { c } : calls'[d] = calls[d]
    ]_vars

\* both calls were told 'absent' for the same key while it was unused, both
\* wrote it and returned the same short URL without error; the store holds
\* the target of one of them only
C13_Witness ==
  \E c, d \in Calls :
    /\ c # d
    /\ calls[c].pc = "done" /\ calls[d].pc = "done"
    /\ Conf(c).prefix = Conf(d).prefix
    /\ Conf(c).bucket = Conf(d).bucket
    /\ calls[c].short_key = calls[d].short_key
    /\ ~ calls[c].present /\ ~ calls[d].present
    /\ calls[c].resp = ClientError("404") /\ calls[d].resp = ClientError("404")
    /\ calls[c].error = NoResp /\ calls[d].error = NoResp
    /\ calls[c].result = calls[d].result
    /\ calls[c].result # None
    /\ calls[c].native_url # calls[d].native_url
    /\ store[<< Conf(c).bucket, calls[c].short_key >>].WebsiteRedirectLocation
         = calls[c].native_url

(* ---------------------------- C14 -------------------------------------- *)

\* C14: over all interleavings of the accesses of all instances and calls the
\* storage client is constructed at most once, and every access (each probe
\* and each write) gets that one same client.
C14_ClientConstructedOnce ==
  /\ built <= 1
  /\ \A c \in Calls :
       calls[c].used >= 1 => /\ calls[c].used = 1
                             /\ calls[c].client = cache
  /\ \A c, d \in Calls :
       (calls[c].used >= 1 /\ calls[d].used >= 1)
         => calls[c].client = calls[d].client

(* ---------------------------- C15 -------------------------------------- *)

\* no other call is inside generate
NoOverlap(c) ==
  \A d \in Calls \ { c } : calls[d].pc \in {"idle", "done", "raised"}

\* generate is entered again by a caller whose previous call has ended
Again(c, i, u) ==
  /\ calls[c].pc \in {"done", "raised"}
  /\ ctor[i].outcome = "ok"
  /\ calls' = [ calls EXCEPT ![c] =
                  [ IdleFrame EXCEPT !.pc = "probing", !.inst = i,
                                     !.native_url = u, !.check = TRUE ] ]
  /\ UNCHANGED << settings, ctor, cache, built, first, store >>

\* the probe of this step said False only for a key absent from the store
TruthfulProbe(c) ==
  calls'[c].out = Returned(FALSE) => ~ calls'[c].present

\* calls made one after the other against a store whose probe is truthful
\* (c1 is the first call; c2 is each later call in turn, made on the same
\* instance for the same URL)
SeqNext ==
  \/ \E c \in Calls, i \in Instances, u \in NativeUrls :
       Start(c, i, u) /\ NoOverlap(c)
  \/ Again("c2", calls["c2"].inst, calls["c2"].native_url) /\ NoOverlap("c2")
  \/ \E c \in Calls : ClientMiss(c)
  \/ \E c \in Calls : ClientBuild(c)
  \/ \E c \in Calls, sid \in Suffixes :
       Probe(c, sid, TRUE) /\ TruthfulProbe(c)
  \/ \E c \in Calls : Upload(c)

SeqSpec == Init /\ [][SeqNext]_vars

\* C15: when calls do not overlap and the probe says False only for absent
\* keys, no write targets a key already in the store; so the short URL a call
\* returns differs from the URL of every object already stored and from the
\* one any other finished call returned, and every stored redirect object
\* stays as it is.
C15_SequentialWritesAreFresh ==
  [][ /\ \A c \in Calls :
           (WriteStep(c) /\ calls'[c].wresp.kind = "ok") =>
             /\ ~ Has(calls'[c].put.Bucket, calls'[c].put.Key)
             /\ \A k \in DOMAIN store, i \in Instances :
                  k[1] = settings[i].bucket =>
                    calls'[c].result # ShortUrlOf(settings[i], k[2])
      /\ \A c, d \in Calls :
           (c # d /\ calls'[c].pc = "done" /\ calls'[d].pc = "done") =>
             /\ calls'[c].result # calls'[d].result
             /\ calls'[c].put.Key # calls'[d].put.Key
      /\ \A k \in DOMAIN store :
           k \in DOMAIN store' /\ store'[k] = store[k]
    ]_vars

\* two calls for the same URL on the same instance, one after the other: the
\* later one was told 'exists' for the earlier one's key, went on to another
\* key, and both redirect objects are in the store
C15_Witness ==
  \E c, d \in Calls :
    /\ c # d
    /\ calls[c].pc = "done" /\ calls[d].pc = "done"
    /\ calls[c].inst = calls[d].inst
    /\ calls[c].native_url = calls[d].native_url
    /\ calls[c].short_key \in calls[d].seen
    /\ calls[d].collisions >= 1
    /\ calls[c].result # calls[d].result
    /\ Has(Conf(c).bucket, calls[c].short_key)
    /\ Has(Conf(d).bucket, calls[d].short_key)
    /\ store[<< Conf(c).bucket, calls[c].short_key >>].WebsiteRedirectLocation
         = calls[c].native_url
    /\ store[<< Conf(d).bucket, calls[d].short_key >>].WebsiteRedirectLocation
         = calls[d].native_url

(* ---------------------------- C16 -------------------------------------- *)

\* bucket, prefix and distribution host of every call are those of the
\* instance it was made on
OwnSettingsUsed(c) ==
  /\ calls[c].short_key # None =>
       calls[c].short_key = Format(Conf(c).prefix, calls[c].short_id)
  /\ calls[c].writes >= 1 =>
       /\ calls[c].put.Bucket = Conf(c).bucket
       /\ calls[c].put.Key = Format(Conf(c).prefix, calls[c].short_id)
  /\ calls[c].pc = "done" =>
       calls[c].result = Format(Conf(c).cloudfront_distro, calls[c].put.Key)

\* C16: the client every call probes and writes through is the one built from
\* the region and signature version of the instance that accessed s3_client
\* first, also for a call on an instance with another region; bucket, prefix
\* and distribution host are always those of the calling instance.
C16_FirstAccessorsClientUsed ==
  \A c \in Calls :
    /\ calls[c].used >= 1 =>
         /\ first \in Instances
         /\ calls[c].client = s3_client(settings[first])
    /\ OwnSettingsUsed(c)

====
